---- MODULE Spec2Model ----
(***************************************************************************)
(* A model of src/main.py: the cache-aware fetch layer (CacheManager,      *)
(* APIClient), the rule-based parser (DataParser), the per-identifier      *)
(* pipeline process_student_id and the collecting loop of main.            *)
(*                                                                         *)
(* JSON values are tagged records: [t |-> "none"], [t |-> "int", v |-> n], *)
(* [t |-> "str", v |-> <<chars>>], [t |-> "list", v |-> <<values>>] and    *)
(* [t |-> "dict", v |-> record].  A Python str is a sequence of            *)
(* characters; each character is a one-token TLA+ string.  The CJK         *)
(* characters of the source are written as pinyin tokens ("li","hui" for   *)
(* the suffix 立绘, "cha","fen" for 差分, "chu","shi" for 初始) and the     *)
(* full-width parentheses as "fw(" and "fw)".                              *)
(***************************************************************************)
EXTENDS Integers, Sequences, FiniteSets, TLC

\* ------------------------------------------------------------------ bounds
\* number of primary identifiers of the concurrent specification
NumStudents == 4
\* longest list of sub-entity ids in a primary payload of SpecRich
MaxSpineRefs == 2
\* longest sub-entity list handed to one parse call in SpecParse
MaxSpineItems == 3
\* number of consecutive program runs over the same on-disk cache
MaxRuns == 2

\* ------------------------------------------------------- program constants
MAX_CONCURRENT_REQUESTS == 3
OFFICIAL_SCHOOL == 30
EASTER_EGG_ID == 348
HTTP_SUCCESS_CODE == 2000

\* ------------------------------------------------------------- JSON values
None == [t |-> "none"]
JInt(n) == [t |-> "int", v |-> n]
JStr(s) == [t |-> "str", v |-> s]
JList(l) == [t |-> "list", v |-> l]
JDict(f) == [t |-> "dict", v |-> f]
EmptyStr == JStr(<<>>)
EmptyDict == JDict(<<>>)

IsNone(x) == x.t = "none"
IsInt(x) == x.t = "int"
IsStr(x) == x.t = "str"
IsList(x) == x.t = "list"
IsDict(x) == x.t = "dict"

\* Python truth value of a JSON value (`if x`, `not x`, `x or y`)
Truthy(x) ==
    CASE IsNone(x) -> FALSE
      [] IsInt(x) -> x.v # 0
      [] IsStr(x) -> x.v # <<>>
      [] IsList(x) -> x.v # <<>>
      [] IsDict(x) -> DOMAIN x.v # {}

\* `x or y`
PyOr(x, y) == IF Truthy(x) THEN x ELSE y

\* dict.get(key, default) on a value known to be a dict
GetD(d, key, default) == IF key \in DOMAIN d.v THEN d.v[key] ELSE default
Get(d, key) == GetD(d, key, None)
HasKey(d, key) == key \in DOMAIN d.v

\* dict.pop(key, None): the dict without the key
Pop(d, key) == JDict([k \in DOMAIN d.v \ {key} |-> d.v[k]])
\* d[key] = value
SetKey(d, key, value) ==
    JDict([k \in DOMAIN d.v \cup {key} |-> IF k = key THEN value ELSE d.v[k]])

\* ------------------------------------------------------------------ strings
UpperLetters == <<"A","B","C","D","E","F","G","H","I","J","K","L","M",
                  "N","O","P","Q","R","S","T","U","V","W","X","Y","Z">>
LowerLetters == <<"a","b","c","d","e","f","g","h","i","j","k","l","m",
                  "n","o","p","q","r","s","t","u","v","w","x","y","z">>
Digits == {"0","1","2","3","4","5","6","7","8","9"}
Whitespace == {" ", "\n", "\t"}

IndexIn(seq, c) == CHOOSE i \in 1..Len(seq) : seq[i] = c
IsUpperCh(c) == \E i \in 1..Len(UpperLetters) : UpperLetters[i] = c
IsLowerCh(c) == \E i \in 1..Len(LowerLetters) : LowerLetters[i] = c
LowerCh(c) == IF IsUpperCh(c) THEN LowerLetters[IndexIn(UpperLetters, c)] ELSE c
UpperCh(c) == IF IsLowerCh(c) THEN UpperLetters[IndexIn(LowerLetters, c)] ELSE c
\* str.lower() / str.upper()
Lower(s) == [i \in 1..Len(s) |-> LowerCh(s[i])]
Upper(s) == [i \in 1..Len(s) |-> UpperCh(s[i])]

\* str.startswith / str.endswith / removeprefix / removesuffix
StartsWith(s, p) == Len(s) >= Len(p) /\ SubSeq(s, 1, Len(p)) = p
EndsWith(s, p) == Len(s) >= Len(p) /\ SubSeq(s, Len(s) - Len(p) + 1, Len(s)) = p
RemovePrefix(s, p) == IF StartsWith(s, p) THEN SubSeq(s, Len(p) + 1, Len(s)) ELSE s
RemoveSuffix(s, p) == IF EndsWith(s, p) THEN SubSeq(s, 1, Len(s) - Len(p)) ELSE s
\* `p in s` for two strings
Contains(s, p) ==
    \E i \in 1..(Len(s) - Len(p) + 1) : SubSeq(s, i, i + Len(p) - 1) = p

\* str.strip(): drop leading and trailing whitespace
RECURSIVE LStrip(_)
LStrip(s) == IF s # <<>> /\ Head(s) \in Whitespace THEN LStrip(Tail(s)) ELSE s
RECURSIVE RStrip(_)
RStrip(s) ==
    IF s # <<>> /\ s[Len(s)] \in Whitespace THEN RStrip(SubSeq(s, 1, Len(s) - 1)) ELSE s
Strip(s) == RStrip(LStrip(s))

\* separator.join(parts) for a list of strings
RECURSIVE Join(_, _)
Join(sep, parts) ==
    IF parts = <<>> THEN <<>>
    ELSE IF Len(parts) = 1 THEN parts[1]
    ELSE parts[1] \o sep \o Join(sep, Tail(parts))

\* an operation that may raise returns [raised |-> TRUE] or a value
Raised == [raised |-> TRUE]
Ok(x) == [raised |-> FALSE, val |-> x]

\* ----------------------------------------------------------------- reasons
\* The reason strings of the source, as tagged records; an f-string reason
\* keeps the value it formats.  NoReason is Python's None.
NoReason == [kind |-> "none"]
NotFound404 == [kind |-> "not found (404)"]
NetworkError == [kind |-> "network error"]
UnknownError == [kind |-> "unknown error"]
HttpError == [kind |-> "HTTP error"]
InvalidFormat == [kind |-> "invalid response format"]
UnknownNetworkReason == [kind |-> "unknown network reason"]
MissingName == [kind |-> "missing name or invalid data"]
TypeReason(type_) == [kind |-> "type", detail |-> type_]
KeywordReason(keyword) == [kind |-> "contains", detail |-> keyword]
SuffixReason(suffix) == [kind |-> "suffix", detail |-> RemovePrefix(suffix, <<"_">>)]
InvalidData == [kind |-> "data invalid or missing 'data' key"]
EmptyData == [kind |-> "value of key 'data' is empty"]
OfficialAccount == [kind |-> "official account"]
EasterEgg == [kind |-> "easter egg"]
NoForms == [kind |-> "no parsable forms found"]

\* ------------------------------------------------------------ CacheManager
CachedStripped == JList(<<JStr(<<"(cached_stripped)">>)>>)
HeavyFields == <<"more", "gallery">>
VoiceFields == <<"voice", "voice_cn", "voice_kr">>

\* mutant: only the first of the fields is removed
PopFirst(data, flds) == Pop(data, Head(flds))

RECURSIVE PopAll(_, _)
PopAll(data, flds) ==
    IF flds = <<>> THEN data ELSE PopAll(Pop(data, Head(flds)), Tail(flds))

RECURSIVE StripVoice(_, _)
StripVoice(data, flds) ==
    IF flds = <<>> THEN data
    ELSE LET f == Head(flds)
             next == IF HasKey(data, f)
                     THEN IF IsList(data.v[f]) /\ Truthy(data.v[f])
                          THEN SetKey(data, f, CachedStripped)
                          ELSE SetKey(data, f, JList(<<>>))
                     ELSE data
         IN StripVoice(next, Tail(flds))

\* CacheManager._clean_student_data, called on a dict (save_student is
\* reached only after json_data.get('code') succeeded)
CleanStudentData(json_data) ==
    IF ~Truthy(json_data) \/ ~HasKey(json_data, "data") THEN json_data
    ELSE IF ~IsDict(json_data.v["data"]) THEN json_data
    ELSE SetKey(json_data, "data",
                StripVoice(PopAll(json_data.v["data"], HeavyFields), VoiceFields))

\* -------------------------------------------------------------- DataParser
SPR == JStr(<<"s","p","r">>)
\* mutant: a second accepted type
ACCEPT_TYPES_Two == {SPR, JStr(<<"p","n","g">>)}
ACCEPT_TYPES == {SPR}
SPINE_KEYWORDS_TO_SKIP == << <<"t","o","s","c","h","o","o","l">> >>
SPINE_SUFFIXES_TO_SKIP ==
    << <<"_","c","n">>, <<"_","s","t","e","a","m">>,
       <<"_","g","l","i","t","c","h","_","s","p","r">>,
       <<"_","c","b","t">>, <<"_","o","l","d">>,
       <<"_","u","p","d","a","t","e">>, <<"_","h","a","l","o","f","i","x">> >>

\* the first keyword / suffix of the list that matches, in list order
\* (0: none); flags[i] tells whether the i-th one matches
FirstTrue(flags) ==
    IF \E i \in 1..Len(flags) : flags[i]
    THEN CHOOSE i \in 1..Len(flags) : flags[i] /\ \A j \in 1..(i - 1) : ~flags[j]
    ELSE 0

\* DataParser._get_spine_skip_reason
GetSpineSkipReason(spine_item) ==
    IF ~Truthy(spine_item) THEN Ok(MissingName)
    ELSE IF ~IsDict(spine_item) THEN Raised          \* .get on a non-dict
    ELSE LET name == Get(spine_item, "name") IN
    IF ~Truthy(name) THEN Ok(MissingName)
    ELSE IF ~IsStr(name) THEN Raised                 \* name.lower()
    ELSE LET name_lower == Lower(name.v)
             type_ == Get(spine_item, "type")
             kw == FirstTrue([i \in 1..Len(SPINE_KEYWORDS_TO_SKIP) |->
                                Contains(name_lower, SPINE_KEYWORDS_TO_SKIP[i])])
             suf == FirstTrue([i \in 1..Len(SPINE_SUFFIXES_TO_SKIP) |->
                                 EndsWith(name_lower, SPINE_SUFFIXES_TO_SKIP[i])])
         IN IF type_ \notin ACCEPT_TYPES THEN Ok(TypeReason(type_))
            ELSE IF kw # 0 THEN Ok(KeywordReason(SPINE_KEYWORDS_TO_SKIP[kw]))
            ELSE IF suf # 0 THEN Ok(SuffixReason(SPINE_SUFFIXES_TO_SKIP[suf]))
            ELSE Ok(NoReason)

\* DataParser._validate_and_get_skip_reason
ValidateAndGetSkipReason(char_data) ==
    IF ~Truthy(char_data) THEN Ok(InvalidData)
    ELSE IF IsInt(char_data) THEN Raised             \* `in` on an int
    ELSE IF IsList(char_data)                        \* then char_data['data']
         THEN IF \E i \in 1..Len(char_data.v) : char_data.v[i] = JStr(<<"d","a","t","a">>)
              THEN Raised ELSE Ok(InvalidData)
    ELSE IF IsStr(char_data)
         THEN IF Contains(char_data.v, <<"d","a","t","a">>) THEN Raised ELSE Ok(InvalidData)
    ELSE IF ~HasKey(char_data, "data") THEN Ok(InvalidData)
    ELSE LET data == char_data.v["data"] IN
    IF ~Truthy(data) THEN Ok(EmptyData)
    ELSE IF ~IsDict(data) THEN Raised                \* data.get on a non-dict
    ELSE IF Get(data, "school") = JInt(OFFICIAL_SCHOOL) THEN Ok(OfficialAccount)
    ELSE IF Get(data, "id") = JInt(EASTER_EGG_ID) THEN Ok(EasterEgg)
    ELSE Ok(NoReason)

\* DataParser._build_name, for family and given each a str or None
BuildName(family, given) ==
    LET family_name == PyOr(family, EmptyStr)
        given_name == PyOr(given, EmptyStr)
    IN IF Truthy(family_name)
       THEN JStr(Strip(family_name.v \o <<" ">> \o given_name.v))
       ELSE given_name

\* re.match(r"^(CH|NP)\d{4}$", s, re.IGNORECASE): `$` also matches before a
\* final newline
MatchesCode(s) ==
    LET core == IF Len(s) = 7 /\ s[7] = "\n" THEN SubSeq(s, 1, 6) ELSE s
    IN /\ Len(core) = 6
       /\ Upper(SubSeq(core, 1, 2)) \in {<<"C","H">>, <<"N","P">>}
       /\ \A i \in 3..6 : core[i] \in Digits

\* DataParser._normalize_file_id
NormalizeFileId(file_id) ==
    LET a == IF StartsWith(file_id, <<"J","_">>)
             THEN RemovePrefix(file_id, <<"J","_">>) ELSE file_id
        b == IF EndsWith(a, <<"_","s","p","r">>) THEN SubSeq(a, 1, Len(a) - 4) ELSE a
    IN IF MatchesCode(b) THEN Upper(b) ELSE Lower(b)

InitialMarker == <<"chu","shi","li","hui">>
RemarkSuffixes == << <<"li","hui">>, <<"cha","fen">> >>

RECURSIVE RemoveSuffixes(_, _)
RemoveSuffixes(s, sufs) ==
    IF sufs = <<>> THEN s
    ELSE RemoveSuffixes(RemoveSuffix(s, Head(sufs)), Tail(sufs))

\* DataParser._process_spine_remark; remark any JSON value, base_skin a str
ProcessSpineRemark(remark, base_skin) ==
    IF ~Truthy(remark) THEN Ok(<<>>)
    ELSE IF IsInt(remark) THEN Raised                \* `in` on an int
    ELSE IF IsList(remark)
         THEN IF \E i \in 1..Len(remark.v) : remark.v[i] = JStr(InitialMarker)
              THEN Ok(<<>>) ELSE Raised              \* list.removesuffix
    ELSE IF IsDict(remark) THEN Raised               \* dict.removesuffix
    ELSE IF Contains(remark.v, InitialMarker) THEN Ok(<<>>)
    ELSE LET processed == RemoveSuffixes(remark.v, RemarkSuffixes)
         IN IF Truthy(base_skin) /\ processed = base_skin.v THEN Ok(<<>>)
            ELSE Ok(processed)

\* DataParser._LANG_CONFIG, in insertion order
LangKeys == <<"full_name", "name", "cn", "jp", "tw", "en", "kr">>
LANG_CONFIG ==
    [ full_name |-> [fam |-> "family_name", giv |-> "given_name", skin |-> "skin", inc |-> TRUE],
      name |-> [fam |-> "family_name", giv |-> "given_name", skin |-> "", inc |-> FALSE],
      cn |-> [fam |-> "family_name_cn", giv |-> "given_name_cn", skin |-> "skin_cn", inc |-> TRUE],
      jp |-> [fam |-> "family_name_jp", giv |-> "given_name_jp", skin |-> "skin_jp", inc |-> TRUE],
      tw |-> [fam |-> "family_name_zh_tw", giv |-> "given_name_zh_tw", skin |-> "skin_zh_tw", inc |-> TRUE],
      en |-> [fam |-> "family_name_en", giv |-> "given_name_en", skin |-> "", inc |-> FALSE],
      kr |-> [fam |-> "family_name_kr", giv |-> "given_name_kr", skin |-> "", inc |-> FALSE] ]

\* the skin descriptor: base skin and processed remark joined by a comma
SkinParts(base_skin, processed_remark) ==
    (IF Truthy(base_skin) THEN <<base_skin.v>> ELSE <<>>)
    \o (IF processed_remark # <<>> THEN <<processed_remark>> ELSE <<>>)
FinalSkin(base_skin, processed_remark) ==
    Join(<<",">>, SkinParts(base_skin, processed_remark))

\* DataParser._build_formatted_name
BuildFormattedName(data, lang_key, spine_remark) ==
    LET cfg == LANG_CONFIG[lang_key]
        base_name == BuildName(Get(data, cfg.fam), Get(data, cfg.giv))
    IN IF ~Truthy(base_name) THEN Ok(EmptyStr)
       ELSE IF ~cfg.inc THEN Ok(base_name)
       ELSE LET base_skin == PyOr(Get(data, cfg.skin), EmptyStr)
                pr == ProcessSpineRemark(spine_remark, base_skin)
            IN IF pr.raised THEN Raised
               ELSE LET final_skin == FinalSkin(base_skin, pr.val)
                    IN IF final_skin # <<>>
                       THEN Ok(JStr(base_name.v \o <<"fw(">> \o final_skin \o <<"fw)">>))
                       ELSE Ok(base_name)

\* SkippedRecord(...) as built in DataParser.parse for a rejected sub-entity
SpineSkippedRecord(kivo_wiki_id, spine_item, skip_reason, data) ==
    [ student_id |-> kivo_wiki_id,
      spine_id |-> Get(spine_item, "id"),
      reason |-> skip_reason,
      spine_name |-> Get(spine_item, "name"),
      spine_remark |-> GetD(spine_item, "remark", EmptyStr),
      name |-> BuildName(Get(data, "family_name"), Get(data, "given_name")),
      name_jp |-> BuildName(Get(data, "family_name_jp"), Get(data, "given_name_jp")),
      name_en |-> BuildName(Get(data, "family_name_en"), Get(data, "given_name_en")),
      school |-> GetD(data, "school", EmptyStr) ]

\* StudentForm(...) as built in DataParser.parse; a name that raised makes
\* the whole call raise
BuildForm(data, kivo_wiki_id, spine_item, file_id) ==
    LET spine_remark == GetD(spine_item, "remark", EmptyStr)
        names == [key \in {LangKeys[i] : i \in 1..Len(LangKeys)} |->
                     BuildFormattedName(data, key, spine_remark)]
        base_skin == PyOr(Get(data, "skin"), EmptyStr)
        pr == ProcessSpineRemark(spine_remark, base_skin)
    IN IF (\E key \in DOMAIN names : names[key].raised) \/ pr.raised THEN Raised
       ELSE Ok([ file_id |-> file_id,
                 char_id |-> kivo_wiki_id,
                 spine_id |-> Get(spine_item, "id"),
                 full_name |-> names["full_name"].val,
                 name |-> names["name"].val,
                 skin_name |-> FinalSkin(base_skin, pr.val),
                 name_cn |-> names["cn"].val,
                 name_jp |-> names["jp"].val,
                 name_tw |-> names["tw"].val,
                 name_en |-> names["en"].val,
                 name_kr |-> names["kr"].val ])

\* mutants: the guard without its membership test, and without its
\* emptiness test
IsEmptyFileId(file_id, processed_file_ids) == file_id = <<>>
IsSeenFileId(file_id, processed_file_ids) == file_id \in processed_file_ids

\* `file_id in processed_file_ids`, and the guard of the `continue`
IsDuplicateFileId(file_id, processed_file_ids) ==
    file_id = <<>> \/ file_id \in processed_file_ids

\* the loop `for spine_item in spine_data` of DataParser.parse, from index i
RECURSIVE ParseLoop(_, _, _, _, _, _, _)
ParseLoop(data, kivo_wiki_id, spine_data, i, results, skipped_spines, processed_file_ids) ==
    IF i > Len(spine_data)
    THEN IF results = <<>> /\ skipped_spines = <<>>
         THEN Ok([forms |-> <<>>, skipped |-> <<>>, reason |-> NoForms])
         ELSE Ok([forms |-> results, skipped |-> skipped_spines, reason |-> NoReason])
    ELSE LET spine_item == spine_data[i]
             sr == GetSpineSkipReason(spine_item)
         IN IF sr.raised THEN Raised
            ELSE IF sr.val # NoReason
            THEN IF ~IsDict(spine_item) THEN Raised  \* spine_item.get("id")
                 ELSE ParseLoop(data, kivo_wiki_id, spine_data, i + 1, results,
                          Append(skipped_spines,
                                 SpineSkippedRecord(kivo_wiki_id, spine_item, sr.val, data)),
                          processed_file_ids)
            ELSE LET file_id == NormalizeFileId(spine_item.v["name"].v)
                 IN IF IsDuplicateFileId(file_id, processed_file_ids)
                    THEN ParseLoop(data, kivo_wiki_id, spine_data, i + 1, results,
                                   skipped_spines, processed_file_ids)
                    ELSE LET form == BuildForm(data, kivo_wiki_id, spine_item, file_id)
                         IN IF form.raised THEN Raised
                            ELSE ParseLoop(data, kivo_wiki_id, spine_data, i + 1,
                                           Append(results, form.val), skipped_spines,
                                           processed_file_ids \cup {file_id})

\* DataParser.parse: Ok([forms, skipped, reason]) or Raised
Parse(json_data, kivo_wiki_id, spine_data) ==
    LET v == ValidateAndGetSkipReason(json_data)
    IN IF v.raised THEN Raised
       ELSE IF v.val # NoReason
       THEN Ok([forms |-> <<>>, skipped |-> <<>>, reason |-> v.val])
       ELSE ParseLoop(json_data.v["data"], kivo_wiki_id, spine_data, 1, <<>>, <<>>, {})

\* --------------------------------------------------------------- APIClient
\* What the server answers for one GET: a status 404, another error status,
\* a transport failure (httpx.RequestError), a body that is not JSON, or a
\* JSON body.
Resp404 == [kind |-> "404"]
RespHttpError == [kind |-> "http_error"]
RespRequestError == [kind |-> "request_error"]
RespBadJson == [kind |-> "bad_json"]
RespJson(body) == [kind |-> "json", body |-> body]

\* `if cached_data := await self.cache.get_...(id)`
CacheHit(cached_data) == Truthy(cached_data)

\* mutant: the counter is never incremented
CountNothing(count, hit) == count

\* mutant: the counter is incremented before the cache is consulted
CountBeforeLookup(count, hit) == count + 1

\* the request counter after the cache lookup: only a miss reaches the
\* `+= 1`
CountAfterLookup(count, hit) == IF hit THEN count ELSE count + 1

\* mutant: every non-empty payload is cached, whatever its code
ShouldCacheAnyCode(json_data) == Truthy(json_data)

\* `if json_data and json_data.get('code') == 2000`, for a dict or a falsy value
ShouldCacheStudent(json_data) ==
    Truthy(json_data) /\ Get(json_data, "code") = JInt(HTTP_SUCCESS_CODE)

\* APIClient.fetch_student_data after the cache miss: the returned
\* (json_data, reason) and the entry written to the cache (None: no write).
\* save_student scrubs the very dict that is returned.
StudentNetOutcome(resp) ==
    CASE resp.kind = "404" ->
            [json_data |-> None, reason |-> NotFound404, save |-> None]
      [] resp.kind = "http_error" ->       \* HTTPStatusError is no RequestError
            [json_data |-> None, reason |-> UnknownError, save |-> None]
      [] resp.kind = "request_error" ->
            [json_data |-> None, reason |-> NetworkError, save |-> None]
      [] resp.kind = "bad_json" ->
            [json_data |-> None, reason |-> UnknownError, save |-> None]
      [] resp.kind = "json" ->
            IF Truthy(resp.body) /\ ~IsDict(resp.body)   \* .get on a non-dict
            THEN [json_data |-> None, reason |-> UnknownError, save |-> None]
            ELSE IF ShouldCacheStudent(resp.body)
            THEN [json_data |-> CleanStudentData(resp.body), reason |-> NoReason,
                  save |-> CleanStudentData(resp.body)]
            ELSE [json_data |-> resp.body, reason |-> NoReason, save |-> None]

\* mutant: the cached envelope is returned without unwrapping 'data'
SpineFromCacheEnvelope(cached_data) == [data |-> cached_data, error |-> NoReason]

\* APIClient.fetch_spine_data on a cache hit
SpineFromCache(cached_data) ==
    IF IsDict(cached_data) /\ HasKey(cached_data, "data")
    THEN [data |-> cached_data.v["data"], error |-> NoReason]
    ELSE [data |-> cached_data, error |-> NoReason]

\* `isinstance(json_response, dict) and 'data' in json_response`
ValidSpineResponse(json_response) ==
    IsDict(json_response) /\ HasKey(json_response, "data")

\* APIClient.fetch_spine_data after the cache miss
SpineNetOutcome(resp) ==
    CASE resp.kind = "404" -> [data |-> None, error |-> NotFound404, save |-> None]
      [] resp.kind = "http_error" -> [data |-> None, error |-> HttpError, save |-> None]
      [] resp.kind = "request_error" -> [data |-> None, error |-> NetworkError, save |-> None]
      [] resp.kind = "bad_json" -> [data |-> None, error |-> UnknownError, save |-> None]
      [] resp.kind = "json" ->
            IF ValidSpineResponse(resp.body)
            THEN [data |-> resp.body.v["data"], error |-> NoReason, save |-> resp.body]
            ELSE [data |-> None, error |-> InvalidFormat, save |-> None]

\* ------------------------------------------------------ process_student_id
\* mutant: the delay is taken after every primary fetch
AlwaysDelay(from_cache) == TRUE

\* `if not from_cache: await asyncio.sleep(REQUEST_DELAY_SECONDS)`
NeedsDelay(from_cache) == ~from_cache

\* mutant: the fetcher's reason is dropped
DefaultFailureReason(fetch_reason) == UnknownNetworkReason

\* `fetch_reason or "未知网络原因"`
FetchFailureReason(fetch_reason) ==
    IF fetch_reason # NoReason THEN fetch_reason ELSE UnknownNetworkReason

\* the SkippedRecord of an identifier whose fetch gave no data
FetchSkippedRecord(student_id, fetch_reason) ==
    [ student_id |-> student_id, spine_id |-> None,
      reason |-> FetchFailureReason(fetch_reason),
      spine_name |-> None, spine_remark |-> None,
      name |-> EmptyStr, name_jp |-> EmptyStr, name_en |-> EmptyStr,
      school |-> EmptyStr ]

RECURSIVE IntsOf(_)
IntsOf(l) ==
    IF l = <<>> THEN <<>>
    ELSE (IF IsInt(Head(l)) THEN <<Head(l).v>> ELSE <<>>) \o IntsOf(Tail(l))

\* `json_data.get("data", {}).get("spine", [])` and the comprehension
\* `[... for sid in spine_ids if isinstance(sid, int)]`: the ids to fetch
SpineIdsToFetch(json_data) ==
    IF ~IsDict(json_data) THEN Raised
    ELSE LET data == GetD(json_data, "data", EmptyDict) IN
    IF ~IsDict(data) THEN Raised                     \* .get on None, a list, ...
    ELSE LET spine_ids == GetD(data, "spine", JList(<<>>)) IN
    IF IsNone(spine_ids) \/ IsInt(spine_ids) THEN Raised   \* not iterable
    ELSE IF IsList(spine_ids) THEN Ok(IntsOf(spine_ids.v))
    ELSE Ok(<<>>)                    \* a str or a dict iterates over no int

\* mutant: failed fetches are handed to the parser too
KeepEverySpineResult(data, error) == TRUE

\* `[data for data, error in spine_results_raw if data is not None]`
KeepSpineResult(data, error) == ~IsNone(data)

RECURSIVE SpineResults(_)
SpineResults(raw) ==
    IF raw = <<>> THEN <<>>
    ELSE (IF KeepSpineResult(Head(raw).data, Head(raw).error)
          THEN <<Head(raw).data>> ELSE <<>>) \o SpineResults(Tail(raw))

\* the SkippedRecord of an identifier rejected as a whole by the parser
StudentSkippedRecord(student_id, json_data, student_skip_reason) ==
    LET data == GetD(json_data, "data", EmptyDict)
    IN [ student_id |-> student_id, spine_id |-> None,
         reason |-> student_skip_reason,
         spine_name |-> None, spine_remark |-> None,
         name |-> PyOr(BuildName(Get(data, "family_name"), Get(data, "given_name")),
                       GetD(data, "given_name_cn", EmptyStr)),
         name_jp |-> PyOr(BuildName(Get(data, "family_name_jp"), Get(data, "given_name_jp")),
                          EmptyStr),
         name_en |-> PyOr(BuildName(Get(data, "family_name_en"), Get(data, "given_name_en")),
                          EmptyStr),
         school |-> GetD(data, "school", EmptyStr) ]

\* mutant: the reason that parse returns for the whole entity is dropped
AfterGatherWithoutReason(student_id, json_data, spine_results_raw) ==
    LET p == Parse(json_data, student_id, SpineResults(spine_results_raw))
    IN IF p.raised THEN Raised
       ELSE Ok([forms |-> p.val.forms, skipped |-> p.val.skipped])

\* process_student_id from the end of the gather to its return:
\* Ok([forms, skipped]) or Raised
AfterGather(student_id, json_data, spine_results_raw) ==
    LET p == Parse(json_data, student_id, SpineResults(spine_results_raw))
    IN IF p.raised THEN Raised
       ELSE Ok([ forms |-> p.val.forms,
                 skipped |-> IF p.val.reason # NoReason
                             THEN Append(p.val.skipped,
                                         StudentSkippedRecord(student_id, json_data, p.val.reason))
                             ELSE p.val.skipped ])

\* -------------------------------------------------------------------- main
\* code-point order of the characters the model uses (str comparison)
CharOrder ==
    <<"\t", "\n", " ", ",">> \o
    <<"0","1","2","3","4","5","6","7","8","9">> \o UpperLetters \o <<"_">> \o
    LowerLetters \o <<"fen", "chu", "shi", "cha", "li", "hui", "fw(", "fw)">>
Ord(c) == IndexIn(CharOrder, c)

\* a < b for two strings
RECURSIVE StrLess(_, _)
StrLess(a, b) ==
    IF b = <<>> THEN FALSE
    ELSE IF a = <<>> THEN TRUE
    ELSE IF Head(a) = Head(b) THEN StrLess(Tail(a), Tail(b))
    ELSE Ord(Head(a)) < Ord(Head(b))

\* key=lambda x: (x.char_id, x.file_id)
FormLess(x, y) ==
    x.char_id < y.char_id \/ (x.char_id = y.char_id /\ StrLess(x.file_id, y.file_id))

\* `x.spine_id or -1`, for a spine_id that is an int or None
SpineIdKey(spine_id) == IF Truthy(spine_id) THEN spine_id.v ELSE -1
\* key=lambda x: (x.student_id, x.spine_id or -1)
SkippedLess(x, y) ==
    x.student_id < y.student_id
    \/ (x.student_id = y.student_id /\ SpineIdKey(x.spine_id) < SpineIdKey(y.spine_id))

\* the order of one of the two sorts of main
LessBy(kind, x, y) == IF kind = "forms" THEN FormLess(x, y) ELSE SkippedLess(x, y)

\* list.sort is stable: x goes after the last element that is not greater
RECURSIVE InsertSorted(_, _, _)
InsertSorted(sorted, x, kind) ==
    IF sorted = <<>> THEN <<x>>
    ELSE IF LessBy(kind, x, sorted[Len(sorted)])
    THEN Append(InsertSorted(SubSeq(sorted, 1, Len(sorted) - 1), x, kind), sorted[Len(sorted)])
    ELSE Append(sorted, x)

\* mutant: the collected lists are written in the order of completion
AsCollected(l, kind) == l

RECURSIVE SortBy(_, _)
SortBy(l, kind) ==
    IF l = <<>> THEN <<>>
    ELSE InsertSorted(SortBy(SubSeq(l, 1, Len(l) - 1), kind), l[Len(l)], kind)

\* ---------------------------------------------------------------- catalogs
\* The payloads the specifications draw the server's answers from.
N_J_CH0001_spr == <<"J","_","C","H","0","0","0","1","_","s","p","r">>
N_ch0001 == <<"c","h","0","0","0","1">>
T_png == JStr(<<"p","n","g">>)
R_Sum == <<"S","u","m","li","hui">>
Skin_Sum == <<"S","u","m">>

\* sub-entity payloads, by kind; the server echoes the requested id
SpineItemKinds == 1..8
SpineItemAt(k, id) ==
    CASE k = 1 -> JDict([name |-> JStr(N_J_CH0001_spr), type |-> SPR, id |-> JInt(id),
                         remark |-> JStr(R_Sum)])
      [] k = 2 -> JDict([name |-> JStr(N_ch0001), type |-> SPR, id |-> JInt(id),
                         remark |-> JStr(<<"X","cha","fen">>)])
      [] k = 3 -> JDict([name |-> JStr(N_J_CH0001_spr), type |-> T_png, id |-> JInt(id)])
      [] k = 4 -> JDict([type |-> T_png, id |-> JInt(id)])
      [] k = 5 -> JDict([name |-> JStr(<<"C","H","0","0","0","2","_","c","n">>), type |-> SPR, id |-> JInt(id)])
      [] k = 6 -> JDict([name |-> JStr(<<"J","_">>), type |-> SPR, id |-> JInt(id)])
      [] k = 7 -> JDict([name |-> JStr(<<"J","_","S","o","_","s","p","r">>), type |-> SPR, id |-> JInt(id),
                         remark |-> None])
      [] k = 8 -> JList(<<>>)

\* the data section of a primary payload
StudentDataWith(school, spine) ==
    JDict([ family_name |-> JStr(<<"A">>), given_name |-> JStr(<<"B">>),
            given_name_jp |-> JStr(<<"b">>), skin |-> JStr(Skin_Sum),
            school |-> JInt(school), spine |-> spine,
            more |-> JStr(<<"m">>), voice |-> JList(<<JStr(<<"v">>), JStr(<<"w">>)>>),
            voice_cn |-> JList(<<>>) ])
StudentBody(code, data) == JDict([code |-> JInt(code), data |-> data])

AllStudentIds == 1..NumStudents
SpineIds == {1, 2}
SeqsUpTo(S, n) == UNION {[1..k -> S] : k \in 0..n}

\* what the server answers for sub-entity sid, by kind
SpineResponseKinds == 1..10
SpineResponseAt(k, sid) ==
    CASE k = 1 -> Resp404
      [] k = 2 -> RespHttpError
      [] k = 3 -> RespRequestError
      [] k = 4 -> RespBadJson
      [] k = 5 -> RespJson(JDict([code |-> JInt(HTTP_SUCCESS_CODE)]))
      [] k = 6 -> RespJson(JDict([code |-> JInt(HTTP_SUCCESS_CODE), data |-> None]))
      [] k = 7 -> RespJson(JDict([code |-> JInt(HTTP_SUCCESS_CODE),
                                  data |-> SpineItemAt(1, sid)]))
      [] k = 8 -> RespJson(JDict([code |-> JInt(HTTP_SUCCESS_CODE),
                                  data |-> SpineItemAt(3, sid)]))
      [] k = 9 -> RespJson(JDict([code |-> JInt(HTTP_SUCCESS_CODE),
                                  data |-> SpineItemAt(8, sid)]))
      [] k = 10 -> RespJson(JDict([code |-> JInt(HTTP_SUCCESS_CODE),
                                   data |-> SpineItemAt(6, sid)]))

\* the values of the 'spine' field: lists of ids, a list with a non-int, null, an int
SpineFieldValues ==
    {JList([i \in 1..Len(l) |-> JInt(l[i])]) : l \in SeqsUpTo(SpineIds, MaxSpineRefs)}
    \cup {JList(<<JStr(<<"x">>), JInt(1)>>), None, JInt(5)}

\* what the server answers for a primary identifier in SpecRich
RichStudentResponses ==
    {Resp404, RespHttpError, RespRequestError, RespBadJson,
     RespJson(EmptyDict), RespJson(JList(<<JInt(1)>>)),
     RespJson(JDict([code |-> JInt(HTTP_SUCCESS_CODE)])),
     RespJson(StudentBody(HTTP_SUCCESS_CODE, None)),
     RespJson(StudentBody(HTTP_SUCCESS_CODE, EmptyDict)),
     RespJson(StudentBody(HTTP_SUCCESS_CODE, JList(<<JInt(1)>>))),
     RespJson(StudentBody(HTTP_SUCCESS_CODE, Pop(StudentDataWith(1, None), "spine"))),
     RespJson(StudentBody(0, StudentDataWith(1, JList(<<JInt(1)>>))))}
    \cup {RespJson(StudentBody(HTTP_SUCCESS_CODE, StudentDataWith(school, sp))) :
            school \in {1, OFFICIAL_SCHOOL}, sp \in SpineFieldValues}

\* what the server answers for the primary identifiers in Spec: the kinds
\* of one of two lists, dealt round the identifiers
ConcStudentResponses ==
    << << RespJson(StudentBody(HTTP_SUCCESS_CODE, StudentDataWith(1, JList(<<JInt(1)>>)))),
          Resp404 >>,
       << RespJson(StudentBody(HTTP_SUCCESS_CODE, StudentDataWith(1, JList(<<JInt(1)>>)))),
          Resp404,
          RespJson(StudentBody(HTTP_SUCCESS_CODE, None)) >> >>
ConcStudentEnvs ==
    {[id \in AllStudentIds |->
        ConcStudentResponses[k][(id % Len(ConcStudentResponses[k])) + 1]] :
        k \in 1..Len(ConcStudentResponses)}
ConcSpineEnv == [sid \in SpineIds |-> SpineResponseAt(IF sid = 1 THEN 7 ELSE 1, sid)]

\* ------------------------------------------------------------------- state
VARIABLES
    student_ids,        \* STUDENT_ID_RANGE of this run
    netStudent,         \* the server: primary id -> response
    netSpine,           \* the server: sub-entity id -> response
    studentCache,       \* cache/students/<id>.json, None when absent
    spineCache,         \* cache/spines/<id>.json, None when absent
    student_req_count,  \* APIClient.student_req_count
    spine_req_count,    \* APIClient.spine_req_count
    sem,                \* semaphore._value
    pc,                 \* where each process_student_id task stands
    json_data,          \* locals of process_student_id, per task
    fetch_reason,
    from_cache,
    subs,               \* the fetch_spine_data calls of the gather, per task
    result,             \* the (forms, skipped) a task returned
    done_queue,         \* as_completed: finished tasks not yet awaited
    main_pc,            \* "collect", "written", "aborted" (or "idle")
    processed_count,
    all_student_forms,
    skipped_records,
    run,                \* which run of the program over the cache this is
    delays,             \* history: asyncio.sleep calls of each task
    parse_calls,        \* history: parser.parse calls of each task
    prev_result,        \* history: what each task returned in the previous run
    cache0,             \* history: the cache as the run found it
    parse_args,         \* SpecParse: the arguments of one DataParser.parse call
    parse_out           \* SpecParse: its outcome, or "pending"

vars == << student_ids, netStudent, netSpine, studentCache, spineCache,
           student_req_count, spine_req_count, sem, pc, json_data, fetch_reason,
           from_cache, subs, result, done_queue, main_pc, processed_count,
           all_student_forms, skipped_records, run, delays, parse_calls, prev_result,
           cache0,
           parse_args, parse_out >>

NoResult == [kind |-> "none"]
NoParse == [kind |-> "none"]

\* APIClient.__init__, the locals of main and the tasks it creates
StartRun(ids) ==
    /\ student_req_count = 0
    /\ spine_req_count = 0
    /\ sem = MAX_CONCURRENT_REQUESTS
    /\ pc = [t \in ids |-> "start"]
    /\ json_data = [t \in ids |-> None]
    /\ fetch_reason = [t \in ids |-> NoReason]
    /\ from_cache = [t \in ids |-> FALSE]
    /\ subs = [t \in ids |-> <<>>]
    /\ result = [t \in ids |-> NoResult]
    /\ done_queue = <<>>
    /\ processed_count = 0
    /\ all_student_forms = <<>>
    /\ skipped_records = <<>>
    /\ delays = [t \in ids |-> 0]
    /\ parse_calls = [t \in ids |-> 0]

\* a first run over an empty cache directory
InitRun(ids) ==
    /\ student_ids = ids
    /\ studentCache = [id \in AllStudentIds |-> None]
    /\ spineCache = [sid \in SpineIds |-> None]
    /\ StartRun(ids)
    /\ main_pc = "collect"
    /\ run = 1
    /\ prev_result = [t \in ids |-> NoResult]
    /\ cache0 = [students |-> studentCache, spines |-> spineCache]
    /\ parse_args = NoParse
    /\ parse_out = NoParse

\* Spec: every identifier of the range, four kinds of primary answers
Init ==
    /\ netStudent \in ConcStudentEnvs
    /\ netSpine = ConcSpineEnv
    /\ InitRun(AllStudentIds)

\* SpecRich: one identifier, every kind of primary and sub-entity answer
InitRich ==
    /\ netStudent \in {[id \in AllStudentIds |-> r] : r \in RichStudentResponses}
    /\ netSpine \in {[sid \in SpineIds |-> SpineResponseAt(ks[sid], sid)] :
                        ks \in [SpineIds -> SpineResponseKinds]}
    /\ InitRun({1})

\* ----------------------------------------------------------------- actions
envVars == << student_ids, netStudent, netSpine >>
parseVars == << parse_args, parse_out >>
mainVars == << main_pc, processed_count, all_student_forms, skipped_records >>
runVars == << run, prev_result, cache0 >>

\* mutant: the acquire also proceeds at value 0
CanAcquireAtZero(value) == value >= 0

\* asyncio.Semaphore.acquire proceeds when the value is positive
CanAcquire(value) == value > 0

\* `if not json_data:`
NoData(data) == ~Truthy(data)

\* a new fetch_spine_data call of the gather
NewSub(sid) ==
    [sid |-> sid, st |-> "lookup", data |-> None, error |-> NoReason, cached |-> FALSE]

\* process_student_id leaves the `async with` by a return or by an
\* exception; value is the semaphore's value while the task holds it
Leave(t, how, value) ==
    /\ pc' = [pc EXCEPT ![t] = how]
    /\ sem' = value + 1
    /\ done_queue' = Append(done_queue, t)

\* process_student_id from `if not json_data` to the gather or the return
Continue(t, data, reason, value) ==
    IF NoData(data)
    THEN /\ Leave(t, "done", value)
         /\ result' = [result EXCEPT ![t] =
                          [forms |-> <<>>, skipped |-> <<FetchSkippedRecord(t, reason)>>]]
         /\ subs' = subs
    ELSE LET ids == SpineIdsToFetch(data)
         IN IF ids.raised
            THEN Leave(t, "raised", value) /\ UNCHANGED << result, subs >>
            ELSE /\ pc' = [pc EXCEPT ![t] = "spines"]
                 /\ subs' = [subs EXCEPT ![t] = [i \in 1..Len(ids.val) |-> NewSub(ids.val[i])]]
                 /\ sem' = value
                 /\ UNCHANGED << result, done_queue >>

\* fetch_student_data has returned: sleep first, or go on at once
AfterFetch(t, data, reason, cached, value) ==
    /\ json_data' = [json_data EXCEPT ![t] = data]
    /\ fetch_reason' = [fetch_reason EXCEPT ![t] = reason]
    /\ from_cache' = [from_cache EXCEPT ![t] = cached]
    /\ IF NeedsDelay(cached)
       THEN /\ pc' = [pc EXCEPT ![t] = "delay"]
            /\ sem' = value
            /\ UNCHANGED << result, subs, done_queue >>
       ELSE Continue(t, data, reason, value)

\* `async with semaphore:` entered and fetch_student_data called: the cache
\* lookup, and on a hit its return (the file of an identifier is read and
\* written by its own task only)
Acquire(t) ==
    /\ main_pc = "collect"
    /\ pc[t] = "start"
    /\ CanAcquire(sem)
    /\ LET cached_data == studentCache[t]
           hit == CacheHit(cached_data)
       IN /\ student_req_count' = CountAfterLookup(student_req_count, hit)
          /\ IF hit
             THEN AfterFetch(t, cached_data, NoReason, TRUE, sem - 1)
             ELSE /\ pc' = [pc EXCEPT ![t] = "net"]
                  /\ sem' = sem - 1
                  /\ UNCHANGED << json_data, fetch_reason, from_cache, result, subs,
                                  done_queue >>
    /\ UNCHANGED << envVars, parseVars, mainVars, runVars, studentCache, spineCache,
                    spine_req_count, delays, parse_calls >>

\* fetch_student_data: the server's answer, the cache write and the return
StudentResponse(t) ==
    /\ main_pc = "collect"
    /\ pc[t] = "net"
    /\ LET o == StudentNetOutcome(netStudent[t])
       IN /\ studentCache' = IF o.save # None
                             THEN [studentCache EXCEPT ![t] = o.save] ELSE studentCache
          /\ AfterFetch(t, o.json_data, o.reason, FALSE, sem)
    /\ UNCHANGED << envVars, parseVars, mainVars, runVars, spineCache,
                    student_req_count, spine_req_count, delays, parse_calls >>

\* `await asyncio.sleep(REQUEST_DELAY_SECONDS)` is over
Delay(t) ==
    /\ main_pc = "collect"
    /\ pc[t] = "delay"
    /\ delays' = [delays EXCEPT ![t] = @ + 1]
    /\ Continue(t, json_data[t], fetch_reason[t], sem)
    /\ UNCHANGED << envVars, parseVars, mainVars, runVars, studentCache, spineCache,
                    student_req_count, spine_req_count, json_data, fetch_reason,
                    from_cache, parse_calls >>

SpineCached(sid) == IF sid \in DOMAIN spineCache THEN spineCache[sid] ELSE None
SpineServer(sid) == IF sid \in DOMAIN netSpine THEN netSpine[sid] ELSE Resp404

\* fetch_spine_data: the cache lookup, and on a hit its return
SpineLookup(t, i) ==
    /\ main_pc = "collect"
    /\ pc[t] = "spines"
    /\ i \in 1..Len(subs[t])
    /\ subs[t][i].st = "lookup"
    /\ LET cached_data == SpineCached(subs[t][i].sid)
           hit == CacheHit(cached_data)
           o == SpineFromCache(cached_data)
       IN /\ spine_req_count' = CountAfterLookup(spine_req_count, hit)
          /\ subs' = IF hit
                     THEN [subs EXCEPT ![t][i] =
                             [@ EXCEPT !.st = "done", !.data = o.data, !.error = o.error,
                                       !.cached = TRUE]]
                     ELSE [subs EXCEPT ![t][i].st = "net"]
    /\ UNCHANGED << envVars, parseVars, mainVars, runVars, studentCache, spineCache,
                    student_req_count, sem, pc, json_data, fetch_reason, from_cache,
                    result, done_queue, delays, parse_calls >>

\* fetch_spine_data: the server's answer, the cache write and the return
SpineResponse(t, i) ==
    /\ main_pc = "collect"
    /\ pc[t] = "spines"
    /\ i \in 1..Len(subs[t])
    /\ subs[t][i].st = "net"
    /\ LET sid == subs[t][i].sid
           o == SpineNetOutcome(SpineServer(sid))
       IN /\ spineCache' = IF o.save # None /\ sid \in DOMAIN spineCache
                           THEN [spineCache EXCEPT ![sid] = o.save] ELSE spineCache
          /\ subs' = [subs EXCEPT ![t][i] =
                        [@ EXCEPT !.st = "done", !.data = o.data, !.error = o.error]]
    /\ UNCHANGED << envVars, parseVars, mainVars, runVars, studentCache,
                    student_req_count, spine_req_count, sem, pc, json_data,
                    fetch_reason, from_cache, result, done_queue, delays, parse_calls >>

\* the gather is complete: parse, collect the skips, return
Finish(t) ==
    /\ main_pc = "collect"
    /\ pc[t] = "spines"
    /\ \A i \in 1..Len(subs[t]) : subs[t][i].st = "done"
    /\ LET r == AfterGather(t, json_data[t], subs[t])
       IN IF r.raised
          THEN Leave(t, "raised", sem) /\ UNCHANGED result
          ELSE Leave(t, "done", sem) /\ result' = [result EXCEPT ![t] = r.val]
    /\ parse_calls' = [parse_calls EXCEPT ![t] = @ + 1]
    /\ UNCHANGED << envVars, parseVars, mainVars, runVars, studentCache, spineCache,
                    student_req_count, spine_req_count, json_data, fetch_reason,
                    from_cache, subs, delays >>

Finished(p) == p \in {"done", "raised"}
Holding(p) == p \in {"net", "delay", "spines"}

\* main: `await future` on the next completed task.  An exception of the
\* task leaves main; asyncio.run then cancels the tasks still running.
MainCollect ==
    /\ main_pc = "collect"
    /\ done_queue # <<>>
    /\ LET t == Head(done_queue)
       IN /\ processed_count' = processed_count + 1
          /\ done_queue' = Tail(done_queue)
          /\ IF pc[t] = "raised"
             THEN /\ main_pc' = "aborted"
                  /\ pc' = [u \in DOMAIN pc |->
                              IF Finished(pc[u]) THEN pc[u] ELSE "cancelled"]
                  /\ sem' = sem + Cardinality({u \in DOMAIN pc : Holding(pc[u])})
                  /\ UNCHANGED << all_student_forms, skipped_records >>
             ELSE /\ all_student_forms' = all_student_forms \o result[t].forms
                  /\ skipped_records' = skipped_records \o result[t].skipped
                  /\ UNCHANGED << main_pc, pc, sem >>
    /\ UNCHANGED << envVars, parseVars, runVars, studentCache, spineCache,
                    student_req_count, spine_req_count, json_data, fetch_reason,
                    from_cache, subs, result, delays, parse_calls >>

\* main after the loop: the two sorts, then the writers
MainFinish ==
    /\ main_pc = "collect"
    /\ processed_count = Cardinality(student_ids)
    /\ all_student_forms' = SortBy(all_student_forms, "forms")
    /\ skipped_records' = SortBy(skipped_records, "skipped")
    /\ main_pc' = "written"
    /\ UNCHANGED << envVars, parseVars, runVars, studentCache, spineCache,
                    student_req_count, spine_req_count, sem, pc, json_data,
                    fetch_reason, from_cache, subs, result, done_queue,
                    processed_count, delays, parse_calls >>

\* what a task of the run handed to main
Outcome(t) ==
    IF pc[t] = "done" THEN result[t]
    ELSE IF pc[t] = "raised" THEN [kind |-> "raised"] ELSE NoResult

\* the program is started again over the cache the last run left
Rerun ==
    /\ main_pc \in {"written", "aborted"}
    /\ run < MaxRuns
    /\ run' = run + 1
    /\ prev_result' = [t \in student_ids |-> Outcome(t)]
    /\ cache0' = [students |-> studentCache, spines |-> spineCache]
    /\ main_pc' = "collect"
    /\ student_req_count' = 0
    /\ spine_req_count' = 0
    /\ sem' = MAX_CONCURRENT_REQUESTS
    /\ pc' = [t \in student_ids |-> "start"]
    /\ json_data' = [t \in student_ids |-> None]
    /\ fetch_reason' = [t \in student_ids |-> NoReason]
    /\ from_cache' = [t \in student_ids |-> FALSE]
    /\ subs' = [t \in student_ids |-> <<>>]
    /\ result' = [t \in student_ids |-> NoResult]
    /\ done_queue' = <<>>
    /\ processed_count' = 0
    /\ all_student_forms' = <<>>
    /\ skipped_records' = <<>>
    /\ delays' = [t \in student_ids |-> 0]
    /\ parse_calls' = [t \in student_ids |-> 0]
    /\ UNCHANGED << envVars, parseVars, studentCache, spineCache >>

\* one run of the program
NextRun ==
    \/ \E t \in student_ids : Acquire(t)
    \/ \E t \in student_ids : StudentResponse(t)
    \/ \E t \in student_ids : Delay(t)
    \/ \E t \in student_ids : \E i \in 1..Len(subs[t]) : SpineLookup(t, i)
    \/ \E t \in student_ids : \E i \in 1..Len(subs[t]) : SpineResponse(t, i)
    \/ \E t \in student_ids : Finish(t)
    \/ MainCollect
    \/ MainFinish

\* runs of the program, one after the other, over the same cache directory
Next == NextRun \/ Rerun

\* one run over every identifier of the range
Spec == Init /\ [][NextRun]_vars
\* runs over one identifier, with every kind of answer
SpecRich == InitRich /\ [][Next]_vars
\* SpecLive: every identifier of the range, one pipeline for each way out
\* of process_student_id, dealt round the identifiers: a payload whose
\* sub-entity is not found (return after parse), a primary fetch that fails
\* (early return), a payload of the official school (whole-entity
\* rejection) and, in the second environment, a payload that
\* process_student_id cannot read
InitLive ==
    /\ netStudent \in
          LET found == RespJson(StudentBody(HTTP_SUCCESS_CODE,
                                            StudentDataWith(1, JList(<<JInt(1)>>))))
              official == RespJson(StudentBody(HTTP_SUCCESS_CODE,
                              StudentDataWith(OFFICIAL_SCHOOL, JList(<<JInt(2)>>))))
              envs == << <<found, Resp404, official, found>>,
                         <<found, RespRequestError, official,
                           RespJson(StudentBody(HTTP_SUCCESS_CODE, None))>> >>
          IN {[id \in AllStudentIds |-> envs[k][((id - 1) % 4) + 1]] : k \in 1..2}
    /\ netSpine = [sid \in SpineIds |-> Resp404]
    /\ InitRun(AllStudentIds)

\* one run over every identifier of the range under a fair event loop:
\* while a task or main can go on, one of them is run; every
\* `await client.get(url, timeout=10.0)` gets its answer or its failure and
\* every sleep ends
SpecLive == InitLive /\ [][NextRun]_vars /\ WF_vars(NextRun)

\* ------------------------------------------------------ DataParser.parse
\* SpecParse: one call of DataParser.parse on arguments drawn from the
\* catalogs; the i-th sub-entity of the list has id i.
ParsePayloads ==
    { StudentBody(HTTP_SUCCESS_CODE, StudentDataWith(1, JList(<<>>))),
      StudentBody(HTTP_SUCCESS_CODE, StudentDataWith(OFFICIAL_SCHOOL, JList(<<>>))),
      StudentBody(HTTP_SUCCESS_CODE, JDict([given_name |-> JStr(<<"B">>), id |-> JInt(7)])),
      StudentBody(HTTP_SUCCESS_CODE, JDict([id |-> JInt(EASTER_EGG_ID)])),
      StudentBody(HTTP_SUCCESS_CODE, EmptyDict) }
ParseSpineLists ==
    {[i \in 1..Len(ks) |-> SpineItemAt(ks[i], i)] : ks \in SeqsUpTo(SpineItemKinds, MaxSpineItems)}

InitParse ==
    /\ parse_args \in {[json_data |-> p, kivo_wiki_id |-> 1, spine_data |-> l] :
                          p \in ParsePayloads, l \in ParseSpineLists}
    /\ parse_out = [kind |-> "pending"]
    /\ netStudent = [id \in AllStudentIds |-> Resp404]
    /\ netSpine = [sid \in SpineIds |-> Resp404]
    /\ student_ids = {}
    /\ studentCache = [id \in AllStudentIds |-> None]
    /\ spineCache = [sid \in SpineIds |-> None]
    /\ StartRun({})
    /\ main_pc = "idle"
    /\ run = 1
    /\ prev_result = <<>>
    /\ cache0 = [students |-> studentCache, spines |-> spineCache]

ParseCall ==
    /\ parse_out.kind = "pending"
    /\ LET p == Parse(parse_args.json_data, parse_args.kivo_wiki_id, parse_args.spine_data)
       IN parse_out' = IF p.raised THEN [kind |-> "raised"]
                       ELSE [kind |-> "returned", forms |-> p.val.forms,
                             skipped |-> p.val.skipped, reason |-> p.val.reason]
    /\ UNCHANGED << envVars, mainVars, runVars, studentCache, spineCache,
                    student_req_count, spine_req_count, sem, pc, json_data,
                    fetch_reason, from_cache, subs, result, done_queue, delays,
                    parse_calls, parse_args >>

NextParse == ParseCall

SpecParse == InitParse /\ [][NextParse]_vars

\* ------------------------------------------------------ the sorts of main
\* SpecSort: main after its collecting loop, with the results of two
\* pipelines that each parsed a list of sub-entities, collected in either
\* order.  The sub-entities carry the ids the server gave them: 0, 1, 2 or
\* none.
SortItemAt(k) ==
    CASE k = 1 -> SpineItemAt(1, 1)
      [] k = 2 -> SpineItemAt(7, 2)
      [] k = 3 -> SpineItemAt(3, 0)
      [] k = 4 -> Pop(SpineItemAt(3, 1), "id")
      [] k = 5 -> SpineItemAt(3, 2)
SortPayload == StudentBody(HTTP_SUCCESS_CODE, StudentDataWith(1, JList(<<>>)))
SortSubs(ks) ==
    [i \in 1..Len(ks) |-> [NewSub(i) EXCEPT !.st = "done", !.data = SortItemAt(ks[i])]]
\* the lists of sub-entity kinds of the two pipelines
SortKinds ==
    {<<a, b>> : a \in SeqsUpTo(1..5, MaxSpineItems),
                b \in SeqsUpTo(1..5, 1)}

InitSort ==
    /\ student_ids = {1, 2}
    /\ netStudent = [id \in AllStudentIds |-> RespJson(SortPayload)]
    /\ netSpine = [sid \in SpineIds |-> Resp404]
    /\ studentCache = [id \in AllStudentIds |-> None]
    /\ spineCache = [sid \in SpineIds |-> None]
    /\ student_req_count = 0
    /\ spine_req_count = 0
    /\ sem = MAX_CONCURRENT_REQUESTS
    /\ pc = [t \in student_ids |-> "done"]
    /\ json_data = [t \in student_ids |-> SortPayload]
    /\ fetch_reason = [t \in student_ids |-> NoReason]
    /\ from_cache = [t \in student_ids |-> TRUE]
    /\ \E ks \in SortKinds : subs = [t \in student_ids |-> SortSubs(ks[t])]
    /\ result = [t \in student_ids |-> AfterGather(t, json_data[t], subs[t]).val]
    /\ done_queue = <<>>
    /\ processed_count = 2
    /\ \E first \in student_ids :
          LET second == CHOOSE t \in student_ids : t # first
          IN /\ all_student_forms = result[first].forms \o result[second].forms
             /\ skipped_records = result[first].skipped \o result[second].skipped
    /\ main_pc = "collect"
    /\ delays = [t \in student_ids |-> 0]
    /\ parse_calls = [t \in student_ids |-> 1]
    /\ run = 1
    /\ prev_result = [t \in student_ids |-> NoResult]
    /\ cache0 = [students |-> studentCache, spines |-> spineCache]
    /\ parse_args = NoParse
    /\ parse_out = NoParse

NextSort == MainFinish

SpecSort == InitSort /\ [][NextSort]_vars

\* ------------------- the pure functions of DataParser and CacheManager
\* SpecText: one call of _normalize_file_id on a raw name, one computation
\* of the skin descriptor and the full name of a form from a remark and a
\* base skin label (DataParser.parse and _build_formatted_name), or one
\* call of CacheManager._clean_student_data on a primary payload, on
\* arguments composed from the parts below.
RawNames ==
    LET NamePrefixes == {<<>>, <<"J","_">>, <<"j","_">>, <<"J","_","J","_">>}
        NameCores ==
            { <<"C","H","0","0","0","1">>, N_ch0001, <<"N","p","1","2","3","4">>,
              <<"C","H","0","0","1">>, <<"C","H","0","0","0","1","2">>,
              <<"A","B","1","2","3","4">>, <<"S","o","m","e","t","h","i","n","g">>,
              <<>>, <<"c","h","0","0","0","1","\n">>, <<"C","H","0","0","O","1">> }
        NameSuffixes ==
            {<<>>, <<"_","s","p","r">>, <<"_","S","P","R">>,
             <<"_","s","p","r","_","s","p","r">>, <<"_","s","p","r","\n">>}
    IN {p \o c \o x : p \in NamePrefixes, c \in NameCores, x \in NameSuffixes}

Remarks ==
    LET RemarkCores == {<<>>, Skin_Sum, <<"X">>}
        RemarkTails ==
            { <<>>, <<"li","hui">>, <<"cha","fen">>, <<"cha","fen","li","hui">>,
              <<"li","hui","cha","fen">>, <<"li","hui","li","hui">>,
              InitialMarker, InitialMarker \o <<"B">> }
    IN {JStr(c \o x) : c \in RemarkCores, x \in RemarkTails} \cup {None}

\* primary payloads handed to _clean_student_data: data sections with each
\* heavy field and each media-presence field absent or present with an
\* array, a string or null, a 'more' key outside the data section, and
\* payloads without a data section that is a dict
ScrubPayloads ==
    LET absent == [t |-> "absent"]
        With(d, key, value) == IF value = absent THEN d ELSE SetKey(d, key, value)
        base == JDict([family_name |-> JStr(<<"A">>), spine |-> JList(<<JInt(1)>>)])
        voices == JList(<<JStr(<<"v">>), JStr(<<"w">>)>>)
        DataWith(more, gallery, voice, voice_cn, voice_kr) ==
            With(With(With(With(With(base, "more", more), "gallery", gallery),
                           "voice", voice), "voice_cn", voice_cn), "voice_kr", voice_kr)
        sections ==
            {DataWith(more, gallery, voice, voice_cn, voice_kr) :
                more \in {absent, JStr(<<"m">>)},
                gallery \in {absent, JList(<<JStr(<<"g">>)>>)},
                voice \in {absent, JList(<<>>), voices, CachedStripped,
                           JStr(<<"v">>), None},
                voice_cn \in {absent, JList(<<>>), voices},
                voice_kr \in {absent, voices}}
    IN {JDict([code |-> JInt(HTTP_SUCCESS_CODE), more |-> JStr(<<"t">>), data |-> d]) :
           d \in sections \cup {None, JList(<<JInt(1)>>), EmptyDict}}
       \cup {EmptyDict, JDict([code |-> JInt(HTTP_SUCCESS_CODE)])}

InitText ==
    /\ parse_args \in {[fn |-> "normalize", name |-> n] : n \in RawNames}
                      \cup {[fn |-> "clean", json_data |-> p] : p \in ScrubPayloads}
                      \cup {[fn |-> "skin", remark |-> r, skin |-> b] :
                               r \in Remarks,
                               b \in {None, EmptyStr, JStr(Skin_Sum), JStr(<<"X">>)}}
    /\ parse_out = [kind |-> "pending"]
    /\ netStudent = [id \in AllStudentIds |-> Resp404]
    /\ netSpine = [sid \in SpineIds |-> Resp404]
    /\ student_ids = {}
    /\ studentCache = [id \in AllStudentIds |-> None]
    /\ spineCache = [sid \in SpineIds |-> None]
    /\ StartRun({})
    /\ main_pc = "idle"
    /\ run = 1
    /\ prev_result = <<>>
    /\ cache0 = [students |-> studentCache, spines |-> spineCache]

textFrame == << envVars, mainVars, runVars, studentCache, spineCache,
                student_req_count, spine_req_count, sem, pc, json_data,
                fetch_reason, from_cache, subs, result, done_queue, delays,
                parse_calls, parse_args >>

\* file_id = self._normalize_file_id(spine_name_raw)
NormalizeCall ==
    /\ parse_out.kind = "pending"
    /\ parse_args.fn = "normalize"
    /\ parse_out' = [kind |-> "normalized", file_id |-> NormalizeFileId(parse_args.name)]
    /\ UNCHANGED textFrame

\* the skin_name and the full_name of the form of a sub-entity with the
\* remark, for a primary entity "A B" with the base skin label
SkinCall ==
    /\ parse_out.kind = "pending"
    /\ parse_args.fn = "skin"
    /\ LET data == SetKey(StudentDataWith(1, JList(<<>>)), "skin", parse_args.skin)
           base_skin == PyOr(Get(data, "skin"), EmptyStr)
           processed_remark == ProcessSpineRemark(parse_args.remark, base_skin).val
       IN parse_out' = [kind |-> "skin",
                        skin_name |-> FinalSkin(base_skin, processed_remark),
                        full_name |->
                            BuildFormattedName(data, "full_name", parse_args.remark).val]
    /\ UNCHANGED textFrame

\* cleaned_data = self._clean_student_data(data)
CleanCall ==
    /\ parse_out.kind = "pending"
    /\ parse_args.fn = "clean"
    /\ parse_out' = [kind |-> "cleaned",
                     json_data |-> CleanStudentData(parse_args.json_data)]
    /\ UNCHANGED textFrame

NextText == NormalizeCall \/ SkinCall \/ CleanCall

SpecText == InitText /\ [][NextText]_vars

\* ================================================================== claims

\* C1: in every reachable state of a run, the number of process_student_id
\* pipelines that hold the semaphore (between the start of their primary
\* fetch and their return) is at most MAX_CONCURRENT_REQUESTS.
C1_SemaphoreBound ==
    /\ Cardinality({t \in student_ids : Holding(pc[t])}) <= MAX_CONCURRENT_REQUESTS
    /\ sem = MAX_CONCURRENT_REQUESTS - Cardinality({t \in student_ids : Holding(pc[t])})
\* the semaphore is full while another pipeline waits for it
C1_Witness ==
    /\ Cardinality({t \in student_ids : Holding(pc[t])}) = MAX_CONCURRENT_REQUESTS
    /\ \E t \in student_ids : pc[t] = "start"

\* the sub-entity ids a cached primary entry references
ReferencedSpineIds(entry) ==
    LET ids == SpineIdsToFetch(entry)
    IN IF ids.raised THEN {} ELSE {ids.val[i] : i \in 1..Len(ids.val)}
\* the cache the run found holds every primary id of the range and every
\* sub-entity id those entries reference
FullyCachedAtStart ==
    \A id \in student_ids :
        /\ cache0.students[id] # None
        /\ \A sid \in ReferencedSpineIds(cache0.students[id]) :
              sid \in DOMAIN cache0.spines /\ cache0.spines[sid] # None

\* C2: when the cache already holds an entry for every primary id and for
\* every sub-entity id those entries reference, a run issues no network
\* call: every primary fetch returns the cached entry with from_cache true,
\* every sub-entity fetch is answered from the cache, both request counters
\* stay 0 and the cache is left unchanged.
C2_FullCacheNoNetwork ==
    FullyCachedAtStart =>
        /\ student_req_count = 0
        /\ spine_req_count = 0
        /\ studentCache = cache0.students
        /\ spineCache = cache0.spines
        /\ \A t \in student_ids :
              /\ pc[t] \notin {"net", "delay"}
              /\ pc[t] # "start" => from_cache[t] /\ json_data[t] = cache0.students[t]
              /\ \A i \in 1..Len(subs[t]) :
                    /\ subs[t][i].st # "net"
                    /\ subs[t][i].st = "done" =>
                          /\ subs[t][i].cached
                          /\ subs[t][i].data = cache0.spines[subs[t][i].sid].v["data"]
\* a whole run over a full cache, with sub-entities, has been written
C2_Witness ==
    /\ FullyCachedAtStart
    /\ main_pc = "written"
    /\ \E t \in student_ids : Len(subs[t]) = 2 /\ result[t].forms # <<>>

\* C3: for an identifier whose primary and sub-entity responses were fetched
\* and cached by an earlier run, a run served entirely from the cache hands
\* main the same CanonicalForms and SkipRecords as the run before.
C3_CachedRerunSameOutput ==
    \A t \in student_ids :
        ( /\ run > 1
          /\ Finished(pc[t])
          /\ from_cache[t]
          /\ \A i \in 1..Len(subs[t]) : subs[t][i].cached
          /\ prev_result[t] # NoResult )
        => Outcome(t) = prev_result[t]
\* a second run served from the cache that produced a form and a skip
C3_Witness ==
    \E t \in student_ids :
        /\ run = 2
        /\ pc[t] = "done"
        /\ from_cache[t]
        /\ Len(subs[t]) = 2
        /\ \A i \in 1..Len(subs[t]) : subs[t][i].cached
        /\ result[t].forms # <<>>
        /\ result[t].skipped # <<>>

\* C4: within one pipeline the delay is executed exactly when the primary
\* fetch reported from_cache = false (whatever the network outcome) and
\* never on a cache hit; it is taken once, after the primary fetch and
\* before the sub-entity fetches are issued, and not between or after them.
C4_DelayOnlyAfterNetworkFetch ==
    \A t \in student_ids :
        /\ pc[t] # "start" => (from_cache[t] <=> CacheHit(cache0.students[t]))
        /\ pc[t] \in {"start", "net"} => delays[t] = 0
        /\ pc[t] = "delay" => delays[t] = 0 /\ ~from_cache[t] /\ subs[t] = <<>>
        /\ pc[t] \in {"spines", "done", "raised"} =>
              delays[t] = (IF from_cache[t] THEN 0 ELSE 1)
\* a pipeline that fetched from the network, slept once and then ran two
\* sub-entity fetches
C4_Witness ==
    \E t \in student_ids :
        /\ pc[t] = "done"
        /\ ~from_cache[t]
        /\ delays[t] = 1
        /\ Len(subs[t]) = 2
        /\ \A i \in 1..Len(subs[t]) : ~subs[t][i].cached

\* C5: for every primary payload and every outcome of the sub-entity
\* fetches, process_student_id returns a result and never raises, so that a
\* failure in one pipeline never keeps main from collecting the others.
C5_NeverRaises ==
    /\ \A t \in student_ids : pc[t] # "raised"
    /\ main_pc # "aborted"

\* C6: when the primary fetch yields no data, the pipeline issues no
\* sub-entity fetch and no parse, and returns no CanonicalForm and exactly
\* one SkipRecord, without sub-entity id, whose reason is the fetcher's
\* reason (the fallback reason when the fetcher gave none).
C6_FetchFailureShortCircuits ==
    \A t \in student_ids :
        (pc[t] \in {"spines", "done", "raised"} /\ NoData(json_data[t])) =>
            /\ pc[t] = "done"
            /\ subs[t] = <<>>
            /\ parse_calls[t] = 0
            /\ result[t].forms = <<>>
            /\ Len(result[t].skipped) = 1
            /\ result[t].skipped[1].student_id = t
            /\ result[t].skipped[1].spine_id = None
            /\ result[t].skipped[1].reason =
                  (IF fetch_reason[t] # NoReason THEN fetch_reason[t]
                   ELSE UnknownNetworkReason)
\* a pipeline whose primary fetch was answered 404 has returned
C6_Witness ==
    \E t \in student_ids :
        /\ pc[t] = "done"
        /\ netStudent[t] = Resp404
        /\ fetch_reason[t] = NotFound404
        /\ json_data[t] = None

\* the fetch_spine_data calls of a task that did not fail
SucceededSubs(t) == SelectSeq(subs[t], LAMBDA sub : sub.error = NoReason)
FailedSpineIds(t) == {subs[t][i].sid : i \in {j \in 1..Len(subs[t]) : subs[t][j].error # NoReason}}

\* C7: a sub-entity whose fetch fails contributes no CanonicalForm and no
\* SkipRecord, and the pipeline returns what it would return had the failed
\* sub-entity ids never been referenced.
C7_FailedSubDropped ==
    \A t \in student_ids :
        (Finished(pc[t]) /\ parse_calls[t] = 1) =>
            LET expected == AfterGather(t, json_data[t], SucceededSubs(t))
            IN /\ IF expected.raised THEN pc[t] = "raised"
                  ELSE pc[t] = "done" /\ result[t] = expected.val
               /\ pc[t] = "done" =>
                     \A sid \in FailedSpineIds(t) :
                        /\ \A k \in 1..Len(result[t].forms) :
                              result[t].forms[k].spine_id # JInt(sid)
                        /\ \A k \in 1..Len(result[t].skipped) :
                              result[t].skipped[k].spine_id # JInt(sid)
\* a pipeline with one failed and one successful sub-entity fetch has
\* returned a form
C7_Witness ==
    \E t \in student_ids :
        /\ pc[t] = "done"
        /\ Len(subs[t]) = 2
        /\ subs[t][1].error # NoReason
        /\ subs[t][2].error = NoReason
        /\ Len(result[t].forms) = 1
        /\ result[t].skipped = <<>>

\* parse_args of a returned call, for the claims about DataParser.parse
ParseItems == parse_args.spine_data
\* the sub-entity passes the filters of _get_spine_skip_reason
Accepted(i) == GetSpineSkipReason(ParseItems[i]) = Ok(NoReason)
\* the normalized file identifier of a sub-entity with a str name
FileIdOf(i) == NormalizeFileId(ParseItems[i].v["name"].v)
HasStrName(i) ==
    /\ IsDict(ParseItems[i])
    /\ HasKey(ParseItems[i], "name")
    /\ IsStr(ParseItems[i].v["name"])
FormsWithFileId(fid) ==
    {k \in 1..Len(parse_out.forms) : parse_out.forms[k].file_id = fid}
\* the skin descriptor parse derives from the remark of sub-entity i
SkinOf(i) ==
    LET base_skin == PyOr(Get(parse_args.json_data.v["data"], "skin"), EmptyStr)
    IN FinalSkin(base_skin,
                 ProcessSpineRemark(GetD(ParseItems[i], "remark", EmptyStr), base_skin).val)

\* C8: the CanonicalForms returned by one parse call have pairwise distinct,
\* non-empty file_id values.
C8_DistinctFileIds ==
    parse_out.kind = "returned" =>
        \A i, j \in 1..Len(parse_out.forms) :
            /\ parse_out.forms[i].file_id # <<>>
            /\ i # j => parse_out.forms[i].file_id # parse_out.forms[j].file_id
\* two forms were returned for three accepted sub-entities, two of which
\* normalize to the same identifier
C8_Witness ==
    /\ parse_out.kind = "returned"
    /\ Len(ParseItems) = 3
    /\ \A i \in 1..3 : Accepted(i)
    /\ Len(parse_out.forms) = 2

\* C9 as stated: for any two sub-entities of the input whose raw names
\* normalize to the same file identifier, parse emits exactly one
\* CanonicalForm with that identifier, carrying the sub-entity id and the
\* remark of the first of the two.
C9_FirstOfTwoWins ==
    parse_out.kind # "pending" =>
        \A i, j \in 1..Len(ParseItems) :
            (i < j /\ HasStrName(i) /\ HasStrName(j) /\ FileIdOf(i) = FileIdOf(j)) =>
                /\ parse_out.kind = "returned"
                /\ \E k \in 1..Len(parse_out.forms) :
                      /\ FormsWithFileId(FileIdOf(i)) = {k}
                      /\ parse_out.forms[k].spine_id = Get(ParseItems[i], "id")
                      /\ parse_out.forms[k].skin_name = SkinOf(i)

\* the first accepted sub-entity of the input with file identifier fid
FirstAccepted(fid) ==
    CHOOSE i \in 1..Len(ParseItems) :
        /\ Accepted(i) /\ FileIdOf(i) = fid
        /\ \A m \in 1..(i - 1) : ~(Accepted(m) /\ FileIdOf(m) = fid)

\* C9 amended: when parse returns without a whole-entity reason, for any two
\* sub-entities that both pass the Stage 2 filters and whose raw names
\* normalize to the same non-empty file identifier, exactly one
\* CanonicalForm with that identifier is emitted, and it carries the
\* sub-entity id and the remark-derived skin of the first accepted
\* sub-entity with that identifier in input order.
C9_FirstAcceptedWins ==
    (parse_out.kind = "returned" /\ parse_out.reason = NoReason) =>
        \A i, j \in 1..Len(ParseItems) :
            (i < j /\ Accepted(i) /\ Accepted(j) /\ FileIdOf(i) = FileIdOf(j)
                   /\ FileIdOf(i) # <<>>) =>
                \E k \in 1..Len(parse_out.forms) :
                    /\ FormsWithFileId(FileIdOf(i)) = {k}
                    /\ parse_out.forms[k].spine_id =
                          Get(ParseItems[FirstAccepted(FileIdOf(i))], "id")
                    /\ parse_out.forms[k].skin_name = SkinOf(FirstAccepted(FileIdOf(i)))
\* a call returned for a list whose second and third sub-entities are
\* accepted duplicates of each other with different remarks, after a
\* rejected first one of the same identifier
C9_Witness ==
    /\ parse_out.kind = "returned"
    /\ parse_out.reason = NoReason
    /\ Len(ParseItems) = 3
    /\ ~Accepted(1) /\ Accepted(2) /\ Accepted(3)
    /\ HasStrName(1)
    /\ FileIdOf(1) = FileIdOf(2) /\ FileIdOf(2) = FileIdOf(3)
    /\ SkinOf(2) # SkinOf(3)
    /\ \E k \in 1..Len(parse_out.forms) : parse_out.forms[k].spine_id = JInt(2)

\* the SkipRecords of the returned call that carry the id of sub-entity i
SkipsOf(i) ==
    {k \in 1..Len(parse_out.skipped) :
        parse_out.skipped[k].spine_id = Get(ParseItems[i], "id")}
WrongType(i) == IsDict(ParseItems[i]) /\ Get(ParseItems[i], "type") \notin {SPR}

\* C10 as stated: every sub-entity of the input whose type tag is not 'spr'
\* produces exactly one SkipRecord, whose reason names the offending type.
C10_EveryWrongTypeSkipped ==
    parse_out.kind # "pending" =>
        \A i \in 1..Len(ParseItems) :
            WrongType(i) =>
                /\ parse_out.kind = "returned"
                /\ \E k \in 1..Len(parse_out.skipped) :
                      /\ SkipsOf(i) = {k}
                      /\ parse_out.skipped[k].reason = TypeReason(Get(ParseItems[i], "type"))

\* C10 amended: when the primary payload passes Stage 1 and parse returns,
\* every sub-entity with a non-empty name whose type tag is not 'spr'
\* produces exactly one SkipRecord, whose reason names the offending type (a
\* sub-entity without a name is reported with the missing-name reason).
C10_NamedWrongTypeSkipped ==
    (parse_out.kind = "returned" /\ parse_out.reason \in {NoReason, NoForms}) =>
        \A i \in 1..Len(ParseItems) :
            WrongType(i) =>
                \E k \in 1..Len(parse_out.skipped) :
                    /\ SkipsOf(i) = {k}
                    /\ parse_out.skipped[k].student_id = parse_args.kivo_wiki_id
                    /\ parse_out.skipped[k].reason =
                          (IF Truthy(Get(ParseItems[i], "name"))
                           THEN TypeReason(Get(ParseItems[i], "type"))
                           ELSE MissingName)
\* a call returned for a list that holds a named sub-entity of type 'png'
\* next to an accepted one
C10_Witness ==
    /\ parse_out.kind = "returned"
    /\ parse_out.reason = NoReason
    /\ \E i, j \in 1..Len(ParseItems) :
          /\ WrongType(i) /\ Truthy(Get(ParseItems[i], "name"))
          /\ Accepted(j)
          /\ SkipsOf(i) # {}
    /\ parse_out.forms # <<>>

\* the sub-entities handed to parse by pipeline t, and those Stage 2 rejects
ParsedItems(t) == SpineResults(subs[t])
RejectedItemIds(t) ==
    {Get(ParsedItems(t)[i], "id") :
        i \in {j \in 1..Len(ParsedItems(t)) :
                 GetSpineSkipReason(ParsedItems(t)[j]) \notin {Ok(NoReason), Raised}}}
SkipRecordsWith(t, spine_id) ==
    {k \in 1..Len(result[t].skipped) : result[t].skipped[k].spine_id = spine_id}
WholeReason(t) == Parse(json_data[t], t, ParsedItems(t)).val.reason

\* C11: in the result of one pipeline, every sub-entity excluded by a
\* Stage 2 rule is reported by exactly one SkipRecord carrying its id, and an
\* excluded primary entity by exactly one SkipRecord without sub-entity id,
\* also when the sub-entity id list of the payload repeats an id.
C11_ExactlyOneSkipRecord ==
    \A t \in student_ids :
        (pc[t] = "done" /\ parse_calls[t] = 1) =>
            /\ Cardinality(SkipRecordsWith(t, None)) =
                  (IF WholeReason(t) # NoReason THEN 1 ELSE 0)
            /\ ValidateAndGetSkipReason(json_data[t]) = Ok(NoReason) =>
                  \A id \in RejectedItemIds(t) :
                      Cardinality(SkipRecordsWith(t, id)) = 1

\* the pipeline of t got a payload from the fetcher and has ended
EndedWithPayload(t) == Finished(pc[t]) /\ ~NoData(json_data[t])
\* the Stage 1 rule that fires on the payload of t, if any
StageOneRejects(t) ==
    /\ ValidateAndGetSkipReason(json_data[t]) # Raised
    /\ ValidateAndGetSkipReason(json_data[t]) # Ok(NoReason)
\* the result of t is the single whole-entity SkipRecord of the Stage 1 rule
OnlyWholeEntityRecord(t) ==
    /\ pc[t] = "done"
    /\ result[t].forms = <<>>
    /\ Len(result[t].skipped) = 1
    /\ result[t].skipped[1].spine_id = None
    /\ result[t].skipped[1].student_id = t
    /\ Ok(result[t].skipped[1].reason) = ValidateAndGetSkipReason(json_data[t])

\* C12: whenever a Stage 1 rule rejects the primary payload (school 30, or
\* any other Stage 1 rule), the pipeline result has no CanonicalForm, no
\* SkipRecord with a sub-entity id and exactly one SkipRecord without
\* sub-entity id whose reason is the rule's reason.
C12_WholeRejection ==
    \A t \in student_ids :
        (EndedWithPayload(t) /\ StageOneRejects(t)) => OnlyWholeEntityRecord(t)

\* C12, for the pipelines that reach parse: the same result, which the
\* pipelines that raise before parse do not deliver.
C12_WholeRejectionWhenParsed ==
    \A t \in student_ids :
        (EndedWithPayload(t) /\ StageOneRejects(t) /\ parse_calls[t] = 1) =>
            OnlyWholeEntityRecord(t)
\* a payload of school 30 that references a fetched sub-entity was rejected
C12_Witness ==
    \E t \in student_ids :
        /\ pc[t] = "done" /\ parse_calls[t] = 1
        /\ ValidateAndGetSkipReason(json_data[t]) = Ok(OfficialAccount)
        /\ ParsedItems(t) # <<>>
        /\ OnlyWholeEntityRecord(t)

\* the order of sub-entity ids the audit trail is to follow: an absent id
\* before every real id, real ids by value
SpineIdBefore(a, b) == IsNone(a) /\ ~IsNone(b)
SpineIdAtMost(a, b) ==
    \/ IsNone(a)
    \/ IsInt(a) /\ IsInt(b) /\ a.v <= b.v

\* C13: after the final sort the CanonicalForms are non-decreasing by
\* (primary id, file identifier) and the SkipRecords are non-decreasing by
\* (primary id, sub-entity id), an absent sub-entity id ordering before
\* every real one of the same primary id, including the id 0.
C13_FinalOrder ==
    main_pc = "written" =>
        /\ \A i, j \in 1..Len(all_student_forms) :
              i < j => ~FormLess(all_student_forms[j], all_student_forms[i])
        /\ \A i, j \in 1..Len(skipped_records) :
              i < j =>
                 \/ skipped_records[i].student_id < skipped_records[j].student_id
                 \/ /\ skipped_records[i].student_id = skipped_records[j].student_id
                    /\ SpineIdAtMost(skipped_records[i].spine_id,
                                     skipped_records[j].spine_id)

\* the server's answer carries the embedded success code / is a mapping
\* with the 'data' key
SuccessCoded(resp) ==
    /\ resp.kind = "json"
    /\ IsDict(resp.body)
    /\ Get(resp.body, "code") = JInt(HTTP_SUCCESS_CODE)
ValidSubResponse(resp) ==
    /\ resp.kind = "json"
    /\ IsDict(resp.body)
    /\ HasKey(resp.body, "data")
\* over a cache directory that was empty at the start, every entry belongs
\* to an id whose network response was cacheable
OnlyCacheableEntries ==
    /\ \A id \in AllStudentIds :
          studentCache[id] # None => id \in student_ids /\ SuccessCoded(netStudent[id])
    /\ \A sid \in SpineIds :
          spineCache[sid] # None => ValidSubResponse(netSpine[sid])
\* a step changes a cache entry only as the return of a network fetch of
\* that id whose response was cacheable
OnlyCacheableWrites ==
    /\ \A id \in AllStudentIds :
          studentCache'[id] # studentCache[id] =>
              /\ id \in student_ids
              /\ pc[id] = "net"
              /\ SuccessCoded(netStudent[id])
    /\ \A sid \in SpineIds :
          spineCache'[sid] # spineCache[sid] =>
              /\ ValidSubResponse(netSpine[sid])
              /\ \E t \in student_ids : \E i \in 1..Len(subs[t]) :
                    /\ subs[t][i].sid = sid /\ subs[t][i].st = "net"
                    /\ subs'[t][i].st = "done"

\* C14: the primary cache holds an entry for an id only if a network
\* response for that id carried code 2000, the sub-entity cache only if a
\* network response for that id was a mapping with the 'data' key; a 404, a
\* transport or HTTP failure, another code or an invalid-format response
\* never creates or changes an entry.
C14_CacheOnlyValidResponses == []OnlyCacheableEntries /\ [][OnlyCacheableWrites]_vars
\* a run has cached the primary response and one sub-entity response and
\* has left the other, failed, sub-entity fetch out of the cache
C14_Witness ==
    \E t \in student_ids :
        /\ pc[t] = "done"
        /\ studentCache[t] # None
        /\ Len(subs[t]) = 2
        /\ subs[t][1].sid # subs[t][2].sid
        /\ subs[t][1].error = InvalidFormat /\ spineCache[subs[t][1].sid] = None
        /\ subs[t][2].error = NoReason /\ spineCache[subs[t][2].sid] # None

\* the fetches of the run that missed the cache and went to the network
PrimaryFetchesOnNetwork ==
    {t \in student_ids :
        \/ pc[t] = "net"
        \/ pc[t] \in {"delay", "spines", "done", "raised"} /\ ~from_cache[t]}
SubFetchesOnNetwork ==
    {<<t, i>> \in student_ids \X (1..MaxSpineRefs) :
        /\ i <= Len(subs[t])
        /\ \/ subs[t][i].st = "net"
           \/ subs[t][i].st = "done" /\ ~subs[t][i].cached}
CountersMatchFetches ==
    /\ main_pc # "aborted" => student_req_count = Cardinality(PrimaryFetchesOnNetwork)
    /\ spine_req_count = Cardinality(SubFetchesOnNetwork)
\* the fetches that miss the cache in this step
NewPrimaryMisses == {t \in student_ids : pc[t] = "start" /\ pc'[t] = "net"}
NewSubMisses ==
    {<<t, i>> \in student_ids \X (1..MaxSpineRefs) :
        /\ i <= Len(subs[t]) /\ i <= Len(subs'[t])
        /\ subs[t][i].st = "lookup" /\ subs'[t][i].st = "net"}
CountersStep ==
    IF run' # run
    THEN student_req_count' = 0 /\ spine_req_count' = 0
    ELSE /\ student_req_count' = student_req_count + Cardinality(NewPrimaryMisses)
         /\ spine_req_count' = spine_req_count + Cardinality(NewSubMisses)
         /\ Cardinality(NewPrimaryMisses) + Cardinality(NewSubMisses) <= 1

\* C15: at every point of a run student_req_count is the number of primary
\* fetches that missed the cache and went to the network and spine_req_count
\* the number of such sub-entity fetches; a fetch answered from the cache
\* changes neither counter and a network fetch increments only the counter
\* of its kind, by one, whatever its outcome.
C15_CountersCountNetworkFetches == []CountersMatchFetches /\ [][CountersStep]_vars
\* a second run has answered the primary fetch and one sub-entity fetch from
\* the cache and has sent the other sub-entity fetch to the network
C15_Witness ==
    \E t \in student_ids :
        /\ run = 2
        /\ pc[t] = "done" /\ from_cache[t]
        /\ Len(subs[t]) = 2
        /\ subs[t][1].cached /\ ~subs[t][2].cached /\ subs[t][2].error # NoReason
        /\ student_req_count = 0 /\ spine_req_count = 1

\* C16: on a cache miss with a well-formed successful network response,
\* fetch_student_data returns a payload equal to the response as received;
\* persisting the response, with its scrub, removes or alters no field of
\* the payload handed back to the caller.
C16_ReturnedAsReceived ==
    \A t \in student_ids :
        ( /\ pc[t] \in {"delay", "spines", "done", "raised"}
          /\ ~from_cache[t]
          /\ SuccessCoded(netStudent[t]) ) =>
            json_data[t] = netStudent[t].body

\* the raw name without one leading 'J_' and then one trailing '_spr'
Remainder(name) ==
    LET a == IF StartsWith(name, <<"J","_">>) THEN SubSeq(name, 3, Len(name)) ELSE name
    IN IF EndsWith(a, <<"_","s","p","r">>) THEN SubSeq(a, 1, Len(a) - 4) ELSE a
\* two letters CH or NP in any case, then four digits, and nothing else
CodeAndFourDigits(s) ==
    /\ Len(s) = 6
    /\ Upper(SubSeq(s, 1, 2)) \in {<<"C","H">>, <<"N","P">>}
    /\ \A i \in 3..6 : s[i] \in Digits
NormalizedAsStated(name) ==
    IF CodeAndFourDigits(Remainder(name)) THEN Upper(Remainder(name))
    ELSE Lower(Remainder(name))

\* C17: for every raw name, _normalize_file_id returns the name without a
\* leading 'J_' and then without a trailing '_spr', upper-cased when the
\* remainder is a two-letter code plus four digits in any case and
\* lower-cased otherwise; 'J_CH0001_spr' gives 'CH0001' and
\* 'J_Something_spr' gives 'something'.
C17_NormalizeFileId ==
    parse_out.kind = "normalized" =>
        /\ parse_out.file_id = NormalizedAsStated(parse_args.name)
        /\ parse_args.name = N_J_CH0001_spr =>
              parse_out.file_id = <<"C","H","0","0","0","1">>
        /\ parse_args.name = <<"J","_","S","o","m","e","t","h","i","n","g","_","s","p","r">> =>
              parse_out.file_id = <<"s","o","m","e","t","h","i","n","g">>

\* C17, for the raw names whose remainder does not end in a newline
C17_NormalizeWithoutFinalNewline ==
    ( /\ parse_out.kind = "normalized"
      /\ ~EndsWith(Remainder(parse_args.name), <<"\n">>) ) =>
        parse_out.file_id = NormalizedAsStated(parse_args.name)

\* the arguments of a skin computation as strings: an absent or null
\* remark or label is the empty string
RemarkText == IF IsStr(parse_args.remark) THEN parse_args.remark.v ELSE <<>>
BaseLabel == IF IsStr(parse_args.skin) THEN parse_args.skin.v ELSE <<>>
\* the remark without its trailing descriptor words
RECURSIVE WithoutTrailingWords(_)
WithoutTrailingWords(s) ==
    IF \E k \in 1..Len(RemarkSuffixes) : EndsWith(s, RemarkSuffixes[k])
    THEN WithoutTrailingWords(SubSeq(s, 1, Len(s) - 2))
    ELSE s
\* the descriptor for a stripped remark: a remark with the marker, an empty
\* one and one equal to the base skin label contribute nothing, another
\* one is joined to the label by a comma
DescriptorFor(stripped) ==
    IF Contains(RemarkText, InitialMarker) \/ stripped = BaseLabel \/ stripped = <<>>
    THEN BaseLabel
    ELSE IF BaseLabel = <<>> THEN stripped
    ELSE BaseLabel \o <<",">> \o stripped

\* C18: for every remark and base skin label the skin descriptor never
\* repeats the base skin label: a remark that contains the
\* initial-illustration marker contributes nothing; otherwise the remark
\* with its trailing descriptor words stripped contributes nothing when it
\* equals the base skin label and is appended after a comma when it
\* differs; remark 'Sum<illustration>' gives the descriptor 'Sum' for the
\* base skin '' and for the base skin 'Sum'.
C18_SkinDescriptor ==
    parse_out.kind = "skin" =>
        /\ parse_out.skin_name = DescriptorFor(WithoutTrailingWords(RemarkText))
        /\ (parse_args.remark = JStr(R_Sum) /\ BaseLabel \in {<<>>, Skin_Sum}) =>
              parse_out.skin_name = Skin_Sum

\* C18, with the stripping read as the removal of one trailing
\* illustration word and then of one trailing variant word: the descriptor
\* and the full name that carries it in full-width parentheses
C18_SkinDescriptorOnePass ==
    parse_out.kind = "skin" =>
        LET stated == DescriptorFor(RemoveSuffixes(RemarkText, RemarkSuffixes))
        IN /\ parse_out.skin_name = stated
           /\ (parse_args.remark = JStr(R_Sum) /\ BaseLabel \in {<<>>, Skin_Sum}) =>
                 parse_out.skin_name = Skin_Sum
           /\ parse_out.full_name =
                 JStr(<<"A", " ", "B">> \o
                      (IF stated = <<>> THEN <<>>
                       ELSE <<"fw(">> \o stated \o <<"fw)">>))
\* the remark 'Sum<illustration>' met the base skin 'Sum' and the
\* descriptor is 'Sum' alone
C18_Witness ==
    /\ parse_out.kind = "skin"
    /\ parse_args.remark = JStr(R_Sum)
    /\ parse_args.skin = JStr(Skin_Sum)
    /\ parse_out.skin_name = Skin_Sum

\* C19: for a fixed cache content and fixed network responses, the final
\* sorted CanonicalForm sequence and the final sorted SkipRecord sequence
\* handed to the writer are the same for every order in which the
\* pipelines complete and every interleaving of their steps: over the
\* empty cache they are the sorted concatenation, in identifier order, of
\* what each identifier's pipeline returns when it runs alone against the
\* server.
\* the sub-entity fetches of a pipeline that runs alone
AloneSubs(ids) ==
    [i \in 1..Len(ids) |->
        LET o == SpineNetOutcome(SpineServer(ids[i]))
        IN [NewSub(ids[i]) EXCEPT !.st = "done", !.data = o.data, !.error = o.error]]
\* what process_student_id(t) returns when it runs alone over the empty cache
AloneResult(t) ==
    LET o == StudentNetOutcome(netStudent[t])
    IN IF NoData(o.json_data)
       THEN Ok([forms |-> <<>>, skipped |-> <<FetchSkippedRecord(t, o.reason)>>])
       ELSE LET ids == SpineIdsToFetch(o.json_data)
            IN IF ids.raised THEN Raised
               ELSE AfterGather(t, o.json_data, AloneSubs(ids.val))
\* the results of the identifiers 1..n, one after the other
RECURSIVE AloneForms(_)
AloneForms(n) == IF n = 0 THEN <<>> ELSE AloneForms(n - 1) \o AloneResult(n).val.forms
RECURSIVE AloneSkipped(_)
AloneSkipped(n) == IF n = 0 THEN <<>> ELSE AloneSkipped(n - 1) \o AloneResult(n).val.skipped
C19_OutputIndependentOfOrder ==
    main_pc = "written" =>
        /\ \A t \in student_ids : ~AloneResult(t).raised
        /\ all_student_forms = SortBy(AloneForms(NumStudents), "forms")
        /\ skipped_records = SortBy(AloneSkipped(NumStudents), "skipped")
\* the lists were written after a run in which a pipeline found in the
\* cache the sub-entity that the pipeline of a greater identifier had
\* fetched, and in which two identifiers gave forms and two gave records
C19_Witness ==
    /\ main_pc = "written"
    /\ \E t, u \in student_ids :
          /\ t < u
          /\ \E i \in 1..Len(subs[t]), j \in 1..Len(subs[u]) :
                /\ subs[t][i].sid = subs[u][j].sid
                /\ subs[t][i].cached
                /\ ~subs[u][j].cached
    /\ Len(all_student_forms) >= 2
    /\ Len(skipped_records) >= 2

\* the payload of t passed Stage 1 and parse neither accepted nor rejected
\* a sub-entity: each one handed to it passes the Stage 2 rules and has an
\* empty file identifier
NothingAcceptedOrRejected(t) ==
    /\ parse_calls[t] = 1
    /\ ValidateAndGetSkipReason(json_data[t]) = Ok(NoReason)
    /\ \A i \in 1..Len(ParsedItems(t)) :
          /\ GetSpineSkipReason(ParsedItems(t)[i]) = Ok(NoReason)
          /\ NormalizeFileId(Get(ParsedItems(t)[i], "name").v) = <<>>

\* C20: every identifier whose pipeline returns is accounted for: the
\* result of process_student_id contains at least one CanonicalForm or at
\* least one SkipRecord, and an entity with no accepted and no rejected
\* sub-entity gets the 'no parsable forms found' whole-entity SkipRecord.
C20_ReturnedIdentifierAccounted ==
    \A t \in student_ids :
        pc[t] = "done" =>
            /\ result[t].forms # <<>> \/ result[t].skipped # <<>>
            /\ \A k \in 1..Len(result[t].forms) : result[t].forms[k].char_id = t
            /\ \A k \in 1..Len(result[t].skipped) : result[t].skipped[k].student_id = t
            /\ NothingAcceptedOrRejected(t) =>
                  /\ result[t].forms = <<>>
                  /\ result[t].skipped =
                        <<StudentSkippedRecord(t, json_data[t], NoForms)>>
\* a pipeline returned the 'no parsable forms found' record for an entity
\* whose only fetched sub-entity has an empty file identifier
C20_Witness ==
    \E t \in student_ids :
        /\ pc[t] = "done"
        /\ NothingAcceptedOrRejected(t)
        /\ ParsedItems(t) # <<>>
        /\ result[t].skipped = <<StudentSkippedRecord(t, json_data[t], NoForms)>>

\* every slot of the semaphore is free again
AllSlotsReleased ==
    /\ sem = MAX_CONCURRENT_REQUESTS
    /\ \A t \in AllStudentIds : ~Holding(pc[t])
\* every pipeline has returned (a pipeline returns only after it has
\* acquired the semaphore) and main has collected one result per identifier
AllCollected ==
    /\ processed_count = NumStudents
    /\ done_queue = <<>>
    /\ \A t \in AllStudentIds : pc[t] = "done"

\* C21: when every network call returns or fails and the scheduler is
\* fair, every identifier's pipeline eventually acquires the semaphore,
\* eventually completes and releases its slot on every exit path, and a
\* run over N identifiers eventually collects exactly N results, one per
\* identifier.
C21_EveryPipelineCompletes == <>[](AllCollected /\ AllSlotsReleased)

\* C21, with the exit by an exception: every run ends either with one
\* result per identifier collected and the lists written, or with main
\* left by the exception of a pipeline that raised; in both cases every
\* slot of the semaphore is free again.
C21_CompletesOrAborts ==
    <>[](/\ AllSlotsReleased
         /\ \/ AllCollected /\ main_pc = "written"
            \/ main_pc = "aborted" /\ \E t \in AllStudentIds : pc[t] = "raised")

\* the scrub as stated, for a payload whose data section is a dict: the
\* payload keeps its keys and, outside the data section, their values
ScrubbedAsStated(received, cleaned) ==
    LET data == received.v["data"]
        out == cleaned.v["data"]
        heavy == {HeavyFields[i] : i \in 1..Len(HeavyFields)}
        media == {VoiceFields[i] : i \in 1..Len(VoiceFields)}
    IN /\ IsDict(cleaned) /\ DOMAIN cleaned.v = DOMAIN received.v
       /\ \A k \in DOMAIN received.v \ {"data"} : cleaned.v[k] = received.v[k]
       /\ IsDict(out) /\ DOMAIN out.v = DOMAIN data.v \ heavy
       /\ \A k \in DOMAIN out.v :
             IF k \in media
             THEN IsList(data.v[k]) =>
                    out.v[k] = (IF data.v[k].v # <<>> THEN CachedStripped
                                ELSE JList(<<>>))
             ELSE out.v[k] = data.v[k]

====
